---- MODULE Spec2Model ----
(***************************************************************************)
(* Nested, parameterised client-side routes of the movies list/detail app. *)
(*                                                                         *)
(* A path is the sequence of its non-empty segments ("/" is <<>>,          *)
(* "/movies/12" is <<MOVIES, <<"1","2">>>>); a segment is a sequence of    *)
(* one-character strings, so that the number <-> text conversions of the   *)
(* code (the template literal of the Link, parseInt in MovieShow) are      *)
(* computed digit by digit.                                                *)
(*                                                                         *)
(* Two route tables are modelled: the one App.tsx registers (AppRoutes,    *)
(* specification Spec) and the one the README documents for App            *)
(* (NestedRoutes, specification SpecNested), under which MoviesPage and    *)
(* MovieShow are mounted the way their own source expects (Outlet,         *)
(* useParams().movieId, movies: Movie[]).                                  *)
(***************************************************************************)
EXTENDS Integers, Sequences, FiniteSets, TLC

VARIABLES location, movies, routes, screen, nav

vars == <<location, movies, routes, screen, nav>>

(***************************************************************************)
(* Bounds of the model                                                     *)
(***************************************************************************)
MaxSegLen == 2

Chars == {"0", "1", "2", "3", "a", "+"}

Digits == {"0", "1", "2", "3", "4", "5", "6", "7", "8", "9"}

Segs == UNION {[1..n -> Chars] : n \in 1..MaxSegLen}

MOVIES == <<"m", "o", "v", "i", "e", "s">>

(***************************************************************************)
(* Number <-> text conversions                                             *)
(***************************************************************************)
DigitChar(d) == CASE d = 0 -> "0" [] d = 1 -> "1" [] d = 2 -> "2" [] d = 3 -> "3"
                  [] d = 4 -> "4" [] d = 5 -> "5" [] d = 6 -> "6" [] d = 7 -> "7"
                  [] d = 8 -> "8" [] d = 9 -> "9"

DigitVal(c) == CHOOSE d \in 0..9 : DigitChar(d) = c

RECURSIVE IdToString(_)
\* `${movie.id}`: the decimal numeral of a non-negative integer
IdToString(n) == IF n < 10 THEN <<DigitChar(n)>>
               ELSE Append(IdToString(n \div 10), DigitChar(n % 10))

RECURSIVE LeadingDigits(_)
LeadingDigits(s) == IF s = <<>> \/ Head(s) \notin Digits THEN <<>>
                    ELSE <<Head(s)>> \o LeadingDigits(Tail(s))

RECURSIVE DigitsValue(_)
DigitsValue(s) == IF s = <<>> THEN 0
                  ELSE 10 * DigitsValue(SubSeq(s, 1, Len(s) - 1)) + DigitVal(s[Len(s)])

NaN == [nan |-> TRUE, val |-> 0]

\* a conversion of the whole text, as Number(string) makes it: NaN as soon
\* as anything but digits is in it
ParseWhole(s) ==
  IF s = <<>> \/ LeadingDigits(s) # s THEN NaN
  ELSE [nan |-> FALSE, val |-> DigitsValue(s)]

\* parseInt(string) without a radix: an optional sign, then the longest run
\* of decimal digits; NaN when there is none.  What follows the digits is
\* ignored.  (Chars has no white space and no "x", so the leading white
\* space and the 0x prefix of parseInt have no case here.)
ParseInt(s) ==
  LET signed == s # <<>> /\ Head(s) \in {"-", "+"}
      body   == IF signed THEN Tail(s) ELSE s
      digs   == LeadingDigits(body)
  IN  IF digs = <<>> THEN NaN
      ELSE [nan |-> FALSE,
            val |-> IF signed /\ Head(s) = "-" THEN 0 - DigitsValue(digs)
                    ELSE DigitsValue(digs)]

\* number === parseInt(...): NaN is equal to nothing
StrictEq(n, r) == ~r.nan /\ n = r.val

(***************************************************************************)
(* The data App holds                                                      *)
(***************************************************************************)
Movie(i, t) == [id |-> i, title |-> t]

MovieItems == <<Movie(1, "A River Runs Through It"), Movie(2, "Se7en"),
                Movie(3, "Inception")>>

\* useState<MovieList>({1: {...}, 2: {...}, 3: {...}}): an object keyed by
\* id, which has no map and no find
AppMovies == [isArray |-> FALSE, items |-> MovieItems]

\* useState<Movie[]>([{...}, {...}, {...}]): the array the README gives App
ReadmeMovies == [isArray |-> TRUE, items |-> MovieItems]

(***************************************************************************)
(* Route patterns and matching                                             *)
(***************************************************************************)
Lit(s) == [param |-> FALSE, lit |-> s, name |-> ""]

Param(n) == [param |-> TRUE, lit |-> <<>>, name |-> n]

EmptyParams == [x \in {} |-> <<>>]

NoMatch == [ok |-> FALSE, params |-> EmptyParams, rest |-> <<>>]

RECURSIVE MatchSegsAbsentParam(_, _, _)
\* MatchSegs with a parameter segment that also matches an absent segment
MatchSegsAbsentParam(pattern, path, params) ==
  IF pattern = <<>> THEN [ok |-> TRUE, params |-> params, rest |-> path]
  ELSE IF path = <<>>
       THEN IF Head(pattern).param
            THEN MatchSegsAbsentParam(Tail(pattern), path,
                                      (Head(pattern).name :> <<>>) @@ params)
            ELSE NoMatch
  ELSE LET p == Head(pattern)
           s == Head(path)
       IN  IF p.param
           THEN MatchSegsAbsentParam(Tail(pattern), Tail(path), (p.name :> s) @@ params)
           ELSE IF s = p.lit
                THEN MatchSegsAbsentParam(Tail(pattern), Tail(path), params)
                ELSE NoMatch

RECURSIVE MatchSegs(_, _, _)
\* left to right, segment by segment: a static segment matches the
\* identical literal, a parameter segment binds one non-empty segment
MatchSegs(pattern, path, params) ==
  IF pattern = <<>> THEN [ok |-> TRUE, params |-> params, rest |-> path]
  ELSE IF path = <<>> THEN NoMatch
  ELSE LET p == Head(pattern)
           s == Head(path)
       IN  IF p.param
           THEN IF s = <<>> THEN NoMatch
                ELSE MatchSegs(Tail(pattern), Tail(path), (p.name :> s) @@ params)
           ELSE IF s = p.lit
                THEN MatchSegs(Tail(pattern), Tail(path), params)
                ELSE NoMatch

\* end = TRUE: the whole path must be consumed
matchPath(pattern, path, end) ==
  LET m == MatchSegs(pattern, path, EmptyParams)
  IN  IF m.ok /\ (~end \/ m.rest = <<>>) THEN m ELSE NoMatch

\* useMatch(pattern): the exact match of the current location
useMatch(pattern, loc) == matchPath(pattern, loc, TRUE)

\* useParams().name, undefined when the route bound no such parameter; the
\* text "undefined" is what parseInt reads then
Undefined == <<"undefined">>

ParamOf(params, name) == IF name \in DOMAIN params THEN params[name] ELSE Undefined

(***************************************************************************)
(* Route tables: the children of <Routes>                                  *)
(***************************************************************************)
\* <Route path=... element=...> children </Route>; element "none" when the
\* element prop is absent
Route(pattern, element, children) ==
  [kind |-> "Route", path |-> pattern, element |-> element, children |-> children]

\* any other JSX element placed among the children
Element(name) == [kind |-> name, path |-> <<>>, element |-> name, children |-> <<>>]

MoviesPattern == <<Lit(MOVIES)>>

\* App.tsx: both routes have no element prop and hold a component as child
AppRoutes ==
  <<Route(MoviesPattern, "none", <<Element("MoviesPage")>>),
    Route(<<>>, "none", <<Element("div")>>)>>

\* the nested table with the parameter named :id, a name MovieShow does
\* not read
NestedRoutesOtherName ==
  <<Route(MoviesPattern, "MoviesPage",
          <<Route(<<Param("id")>>, "MovieShow", <<>>)>>),
    Route(<<>>, "Home", <<>>)>>

\* README, "Pass the movies as a prop to MovieShow": the nested table
NestedRoutes ==
  <<Route(MoviesPattern, "MoviesPage",
          <<Route(<<Param("movieId")>>, "MovieShow", <<>>)>>),
    Route(<<>>, "Home", <<>>)>>

RECURSIVE AllRoutes(_)
\* createRoutesFromChildren: every child of <Routes>, and of a <Route>,
\* must itself be a <Route>; anything else is an invariant failure
AllRoutes(children) ==
  \A i \in 1..Len(children) :
     children[i].kind = "Route" /\ AllRoutes(children[i].children)

RECURSIVE Flatten(_, _, _)
\* the branches of the table from index i on: each route's child branches,
\* then the route itself, each branch from the outermost route inwards
Flatten(rs, i, prefix) ==
  IF i > Len(rs) THEN <<>>
  ELSE Flatten(rs[i].children, 1, Append(prefix, rs[i]))
         \o <<Append(prefix, rs[i])>>
         \o Flatten(rs, i + 1, prefix)

RECURSIVE BranchPattern(_)
\* a child's effective path: the parent's path followed by its own
BranchPattern(branch) ==
  IF branch = <<>> THEN <<>> ELSE Head(branch).path \o BranchPattern(Tail(branch))

RECURSIVE SegScore(_)
SegScore(pattern) ==
  IF pattern = <<>> THEN 0
  ELSE (IF Head(pattern).param THEN 3 ELSE 10) + SegScore(Tail(pattern))

\* the rank of a branch: more segments and static segments rank higher
Score(branch) == Len(BranchPattern(branch)) + SegScore(BranchPattern(branch))

RECURSIVE MatchBranch(_, _, _, _)
\* match the routes of a branch in turn; only the last must consume the
\* whole rest.  Every match of the branch sees all parameters bound.
MatchBranch(branch, rest, base, params) ==
  IF branch = <<>> THEN [ok |-> TRUE, matches |-> <<>>, params |-> params]
  ELSE LET r == Head(branch)
           m == matchPath(r.path, rest, Len(branch) = 1)
           used == SubSeq(rest, 1, Len(rest) - Len(m.rest))
           next == MatchBranch(Tail(branch), m.rest, base \o used, m.params @@ params)
       IN  IF ~m.ok \/ ~next.ok
           THEN [ok |-> FALSE, matches |-> <<>>, params |-> EmptyParams]
           ELSE [ok |-> TRUE,
                 matches |-> <<[route |-> r, pathname |-> base \o used]>> \o next.matches,
                 params |-> next.params]

NoBranch == [ok |-> FALSE, matches |-> <<>>, params |-> EmptyParams]

\* matchRoutes: the best ranked branch that matches the whole location
matchRoutes(rs, loc) ==
  LET branches == Flatten(rs, 1, <<>>)
      hits == {i \in 1..Len(branches) : MatchBranch(branches[i], loc, <<>>, EmptyParams).ok}
  IN  IF hits = {} THEN NoBranch
      ELSE LET best == CHOOSE i \in hits :
                         \A j \in hits : Score(branches[i]) > Score(branches[j])
                                         \/ (Score(branches[i]) = Score(branches[j]) /\ i <= j)
           IN  MatchBranch(branches[best], loc, <<>>, EmptyParams)

(***************************************************************************)
(* Components: what each renders                                           *)
(***************************************************************************)
NoNode == [kind |-> "none"]

ErrorNode(e) == [kind |-> "error", error |-> e]

\* a Link target: `${movie.id}` has no leading "/", so it is relative
RelativeTo(seg) == [absolute |-> FALSE, segs |-> <<seg>>]

\* a relative target is appended to the path of the route that renders the
\* link, an absolute one replaces the path
resolveTo(to, routePathname) ==
  IF to.absolute THEN to.segs ELSE routePathname \o to.segs

\* Link with the target `/${movie.id}`: a leading "/" makes it absolute
LinkAbsolute(movie, routePathname) ==
  [key |-> movie.id,
   to |-> [absolute |-> TRUE, segs |-> <<IdToString(movie.id)>>],
   href |-> resolveTo([absolute |-> TRUE, segs |-> <<IdToString(movie.id)>>], routePathname),
   text |-> movie.title]

Link(movie, routePathname) ==
  [key |-> movie.id,
   to |-> RelativeTo(IdToString(movie.id)),
   href |-> resolveTo(RelativeTo(IdToString(movie.id)), routePathname),
   text |-> movie.title]

\* movies.map(...): a TypeError when movies is no array
MoviesList(ms, routePathname) ==
  IF ~ms.isArray
  THEN [kind |-> "MoviesList", error |-> "TypeError", links |-> <<>>]
  ELSE [kind |-> "MoviesList", error |-> "none",
        links |-> [i \in 1..Len(ms.items) |-> Link(ms.items[i], routePathname)]]

\* MoviesPage with a match query that accepts a remaining nested path
MoviesPagePrefixMatch(ms, loc, outlet, routePathname) ==
  LET match == matchPath(MoviesPattern, loc, FALSE)
  IN  [kind |-> "MoviesPage",
       match |-> match.ok,
       list |-> MoviesList(ms, routePathname),
       defaultText |-> match.ok,
       outletRendered |-> ~match.ok,
       outlet |-> IF match.ok THEN NoNode ELSE outlet]

\* the list, then the default text when useMatch("/movies") succeeds and
\* the Outlet otherwise
MoviesPage(ms, loc, outlet, routePathname) ==
  LET match == useMatch(MoviesPattern, loc)
  IN  [kind |-> "MoviesPage",
       match |-> match.ok,
       list |-> MoviesList(ms, routePathname),
       defaultText |-> match.ok,
       outletRendered |-> ~match.ok,
       outlet |-> IF match.ok THEN NoNode ELSE outlet]

\* movies.find(movie => movie.id === parseInt(params.movieId!)): the first
\* such movie, <<>> for undefined
Find(ms, n) ==
  LET hits == {i \in 1..Len(ms.items) : StrictEq(ms.items[i].id, n)}
  IN  IF hits = {} THEN <<>>
      ELSE <<ms.items[CHOOSE i \in hits : \A j \in hits : i <= j]>>

\* MovieShow reading params.id, a name the route does not bind
MovieShowWrongParam(ms, params) ==
  LET movieId == ParamOf(params, "id")
      foundMovie == IF ms.isArray THEN Find(ms, ParseInt(movieId)) ELSE <<>>
  IN  [kind |-> "MovieShow",
       movieId |-> movieId,
       foundMovie |-> foundMovie,
       title |-> IF foundMovie = <<>> THEN "" ELSE foundMovie[1].title,
       error |-> IF foundMovie = <<>> THEN "TypeError" ELSE "none"]

\* foundMovie!.title is read whether or not a movie was found
MovieShow(ms, params) ==
  LET movieId == ParamOf(params, "movieId")
      foundMovie == IF ms.isArray THEN Find(ms, ParseInt(movieId)) ELSE <<>>
  IN  [kind |-> "MovieShow",
       movieId |-> movieId,
       foundMovie |-> foundMovie,
       title |-> IF foundMovie = <<>> THEN "" ELSE foundMovie[1].title,
       error |-> IF foundMovie = <<>> THEN "TypeError" ELSE "none"]

RECURSIVE RenderMatches(_, _, _, _)
\* the element of the k-th match, with the rest of the branch as its outlet;
\* a route without element renders its outlet
RenderMatches(branch, k, ms, loc) ==
  IF k > Len(branch.matches) THEN NoNode
  ELSE LET m == branch.matches[k]
           outlet == RenderMatches(branch, k + 1, ms, loc)
       IN  CASE m.route.element = "MoviesPage" -> MoviesPage(ms, loc, outlet, m.pathname)
             [] m.route.element = "MovieShow" -> MovieShow(ms, branch.params)
             [] m.route.element = "Home" -> [kind |-> "Home"]
             [] OTHER -> outlet

\* <div><NavBar /><Routes>...</Routes></div>
App(rs, ms, loc) ==
  [navbar |-> TRUE,
   routes |-> IF ~AllRoutes(rs) THEN ErrorNode("Invariant")
              ELSE RenderMatches(matchRoutes(rs, loc), 1, ms, loc)]

RECURSIVE Throws(_)
\* whether rendering the node raised an error
Throws(node) ==
  CASE node.kind = "error" -> TRUE
    [] node.kind = "MoviesPage" ->
         node.list.error # "none" \/ (node.outletRendered /\ Throws(node.outlet))
    [] node.kind = "MovieShow" -> node.error # "none"
    [] OTHER -> FALSE

\* an error raised while rendering is caught nowhere: the whole tree is
\* taken down and nothing of it is displayed
Render(rs, ms, loc) ==
  LET tree == App(rs, ms, loc)
  IN  [tree |-> tree, crashed |-> Throws(tree.routes)]

(***************************************************************************)
(* The state machine                                                       *)
(***************************************************************************)
IdSegs == {IdToString(MovieItems[i].id) : i \in 1..Len(MovieItems)}

\* the paths a user enters in the address bar
Paths ==
  {<<>>, <<MOVIES>>} \cup {<<s>> : s \in Segs} \cup {<<MOVIES, s>> : s \in Segs}
    \cup {<<MOVIES, s, t>> : s \in Segs, t \in IdSegs}

\* what is on screen: the links of the movies list, none after a crash
Links ==
  IF ~screen.crashed /\ screen.tree.routes.kind = "MoviesPage"
  THEN screen.tree.routes.list.links ELSE <<>>

\* the one writer of the current path; the tree is rendered anew.  nav is
\* the navigation request: its kind, the key of the link, where it was
\* made and where it leads
Navigate(kind, key, from, target) ==
  /\ location' = target
  /\ nav' = [kind |-> kind, key |-> key, from |-> from, target |-> target]
  /\ screen' = Render(routes, movies, target)
  /\ UNCHANGED <<movies, routes>>

\* a path entered in the address bar loads the document afresh
Visit(p) == Navigate("visit", 0, <<>>, p)

ClickLink(i) ==
  /\ i \in DOMAIN Links
  /\ Navigate("link", Links[i].key, location, Links[i].href)

\* Rerender that sends the user back to the list when the tree has crashed,
\* writing the path without a navigation request
RerenderWritesPath ==
  /\ location' = IF screen.crashed THEN <<MOVIES>> ELSE location
  /\ screen' = Render(routes, movies, location')
  /\ UNCHANGED <<movies, routes, nav>>

\* React calls the components again: nothing but the screen is written
Rerender ==
  /\ screen' = Render(routes, movies, location)
  /\ UNCHANGED <<location, movies, routes, nav>>

Start(rs, ms) ==
  /\ location = <<>>
  /\ movies = ms
  /\ routes = rs
  /\ nav = [kind |-> "load", key |-> 0, from |-> <<>>, target |-> <<>>]
  /\ screen = Render(rs, ms, <<>>)

\* the app as App.tsx composes it.  No link is ever on screen here, so
\* ClickLink has no step to take.
Init == Start(AppRoutes, AppMovies)

Next == (\E p \in Paths : Visit(p)) \/ Rerender

Spec == Init /\ [][Next]_vars

\* the components mounted under the route table the README gives App
InitNested == Start(NestedRoutes, ReadmeMovies)

NextNested ==
  \/ \E p \in Paths : Visit(p)
  \/ \E i \in 1..Len(MovieItems) : ClickLink(i)
  \/ Rerender

SpecNested == InitNested /\ [][NextNested]_vars

(***************************************************************************)
(* Properties                                                              *)
(***************************************************************************)
\* what <Routes> rendered, and the detail view at the Outlet of MoviesPage
Page == screen.tree.routes

Detail == IF Page.kind = "MoviesPage" /\ Page.outletRendered THEN Page.outlet ELSE NoNode

UnderMovies == Len(location) = 2 /\ location[1] = MOVIES

ListedIds == {movies.items[i].id : i \in 1..Len(movies.items)}

\* C1: for every movie m App holds, at the path /movies/<m.id> the detail
\* view is displayed, has found exactly m and shows the title of m.
C1_DetailResolvesToMovie ==
  \A i \in 1..Len(movies.items) :
     location = <<MOVIES, IdToString(movies.items[i].id)>> =>
        /\ ~screen.crashed
        /\ Detail.kind = "MovieShow"
        /\ Detail.foundMovie = <<movies.items[i]>>
        /\ Detail.title = movies.items[i].title

\* C2: at a path /movies/<n> whose n is the id of no movie, the lookup of
\* the detail view finds no movie and the view does not go on as if there
\* were one: nothing throws and no title is shown.
C2_NotFoundIsHandled ==
  (UnderMovies /\ \A id \in ListedIds : ~StrictEq(id, ParseInt(location[2]))) =>
     /\ ~screen.crashed
     /\ Detail.kind = "MovieShow"
     /\ Detail.foundMovie = <<>>
     /\ Detail.error = "none"

\* C3: whenever the path is /movies or /movies/<segment>, the movies list
\* is displayed, one link per movie.
C3_ListAlwaysDisplayed ==
  (location = <<MOVIES>> \/ UnderMovies) =>
     /\ ~screen.crashed
     /\ Page.kind = "MoviesPage"
     /\ Len(Page.list.links) = Len(movies.items)
     /\ \A i \in 1..Len(movies.items) : Page.list.links[i].text = movies.items[i].title

\* C4: the routes registered hold a child pattern :movieId under /movies,
\* and at every path /movies/<segment> MovieShow is rendered at the Outlet
\* of MoviesPage.
C4_MovieShowAtOutlet ==
  UnderMovies =>
     /\ \E i \in 1..Len(routes) :
           /\ routes[i].path = MoviesPattern
           /\ \E j \in 1..Len(routes[i].children) :
                 /\ routes[i].children[j].kind = "Route"
                 /\ routes[i].children[j].path = <<Param("movieId")>>
                 /\ routes[i].children[j].element = "MovieShow"
     /\ Page.kind = "MoviesPage"
     /\ Page.outletRendered
     /\ Page.outlet.kind = "MovieShow"

C9_UnmatchedRendersNothing ==
  (location # <<>> /\ location[1] # MOVIES) =>
     /\ ~screen.crashed
     /\ screen.tree.navbar
     /\ Page.kind = "none"

\* C10: the movie list never changes, and the path changes only in a step
\* that makes a navigation request, to the target of that request; a step
\* that only renders leaves the path as it is.
C10_PathWrittenOnlyByNavigation ==
  [][/\ movies' = movies
     /\ location' # location =>
           nav' # nav /\ nav'.kind \in {"visit", "link"} /\ nav'.target = location'
     /\ nav' = nav => location' = location]_vars

C10_RenderedAfterLink ==
  /\ nav.kind = "link"
  /\ location = nav.target
  /\ ~screen.crashed
  /\ Detail.kind = "MovieShow"
  /\ Detail.foundMovie # <<>>

\* C11: at a path equal to a registered static pattern the match succeeds
\* and binds no parameter: / displays the Home content and /movies
\* displays MoviesPage.
C11_StaticPatternsMatch ==
  /\ location = <<>> => ~screen.crashed /\ Page.kind = "Home"
  /\ location = <<MOVIES>> => ~screen.crashed /\ Page.kind = "MoviesPage"
  /\ location \in {<<>>, <<MOVIES>>} =>
        /\ screen.tree.navbar
        /\ matchRoutes(routes, location).ok
        /\ matchRoutes(routes, location).params = EmptyParams

ReadsAs(s, id) ==
  LET body == IF s # <<>> /\ Head(s) = "+" THEN Tail(s) ELSE s
  IN  \E z \in 0..Len(body), k \in 1..Len(body) :
         /\ \A j \in 1..z : body[j] = "0"
         /\ SubSeq(body, z + 1, k) = IdToString(id)
         /\ k = Len(body) \/ body[k + 1] \notin Digits

====
